---- MODULE Spec2Model ----
(***************************************************************************)
(* expo-squircle: the geometry core (src/src/core/squircleMath.ts) with    *)
(* its two caches, and the smoothing validator of core/params.ts.          *)
(*                                                                         *)
(* Numbers.  A JavaScript number is modelled as an exact rational <<n, d>> *)
(* in lowest terms with d > 0; the values that are not finite numbers have *)
(* d <= 0.  Arithmetic on rationals is exact (the rounding of IEEE doubles *)
(* is not modelled).  Math.sin, Math.cos and Math.tan are evaluated by     *)
(* their Taylor series in fixed point with Scale units per 1, so the       *)
(* trigonometric distances c, d and arcSectionLength carry four decimals.  *)
(***************************************************************************)
EXTENDS Integers, Sequences, FiniteSets, TLC

VARIABLES pathCache, profileCache, last, calls, firstPath, swept, after

vars == <<pathCache, profileCache, last, calls, firstPath, swept, after>>

----------------------------------------------------------------------------
(* JavaScript values                                                       *)

NaN == <<0, 0>>
PosInfinity == <<1, 0>>
NegInfinity == <<-1, 0>>
Undefined == <<0, -1>>
NonNumber == <<0, -2>>

\* typeof value === "number"
IsNumberType(x) == x[2] >= 0

\* Number.isFinite(value)
IsNum(x) == x[2] > 0

Abs(n) == IF n < 0 THEN -n ELSE n

RECURSIVE GCD(_, _)
GCD(a, b) == IF b = 0 THEN a ELSE GCD(b, a % b)

Rat(n, d) == LET g == GCD(Abs(n), d) IN <<n \div g, d \div g>>

OfInt(k) == <<k, 1>>

Zero == OfInt(0)

\* +Infinity or -Infinity
IsInf(x) == x[2] = 0 /\ x[1] # 0

\* a number other than NaN
IsOrdered(x) == IsNum(x) \/ IsInf(x)

Neg(x) == IF IsOrdered(x) THEN <<-x[1], x[2]>> ELSE NaN

Add(x, y) ==
  IF ~IsOrdered(x) \/ ~IsOrdered(y) THEN NaN
  ELSE IF IsInf(x) THEN (IF IsInf(y) /\ y # x THEN NaN ELSE x)
  ELSE IF IsInf(y) THEN y
  ELSE LET g == GCD(x[2], y[2])
       IN Rat(x[1] * (y[2] \div g) + y[1] * (x[2] \div g), (x[2] \div g) * y[2])

Sub(x, y) == Add(x, Neg(y))

Mul(x, y) ==
  IF ~IsOrdered(x) \/ ~IsOrdered(y) THEN NaN
  ELSE IF IsInf(x) \/ IsInf(y)
  THEN (IF x[1] = 0 \/ y[1] = 0 THEN NaN
        ELSE IF (x[1] > 0) = (y[1] > 0) THEN PosInfinity ELSE NegInfinity)
  ELSE LET g1 == GCD(Abs(x[1]), y[2])
           g2 == GCD(Abs(y[1]), x[2])
       IN <<(x[1] \div g1) * (y[1] \div g2), (x[2] \div g2) * (y[2] \div g1)>>

\* x / y.  0 / 0 and Infinity / Infinity are NaN, another zero denominator
\* gives an infinity (the zero taken as +0), a finite x over an infinity is 0.
Div(x, y) ==
  IF ~IsOrdered(x) \/ ~IsOrdered(y) THEN NaN
  ELSE IF IsInf(y) THEN (IF IsInf(x) THEN NaN ELSE Zero)
  ELSE IF IsInf(x) THEN (IF (x[1] > 0) = (y[1] >= 0) THEN PosInfinity ELSE NegInfinity)
  ELSE IF y[1] = 0
  THEN (IF x[1] = 0 THEN NaN ELSE IF x[1] > 0 THEN PosInfinity ELSE NegInfinity)
  ELSE IF y[1] > 0 THEN Mul(x, <<y[2], y[1]>>)
  ELSE Mul(x, <<-y[2], -y[1]>>)

\* x < y, x <= y, x === y: false when an operand is NaN
Lt(x, y) ==
  /\ IsOrdered(x)
  /\ IsOrdered(y)
  /\ IF IsNum(x) /\ IsNum(y)
     THEN LET g == GCD(x[2], y[2]) IN x[1] * (y[2] \div g) < y[1] * (x[2] \div g)
     ELSE x # y /\ (x = NegInfinity \/ y = PosInfinity)

StrictEq(x, y) == IsOrdered(x) /\ IsOrdered(y) /\ x = y

Le(x, y) == Lt(x, y) \/ StrictEq(x, y)

\* Math.min(x, y), Math.max(x, y): NaN when an operand is NaN
MathMin(x, y) ==
  IF ~IsOrdered(x) \/ ~IsOrdered(y) THEN NaN ELSE IF Le(x, y) THEN x ELSE y

MathMax(x, y) ==
  IF ~IsOrdered(x) \/ ~IsOrdered(y) THEN NaN ELSE IF Le(x, y) THEN y ELSE x

\* value ?? fallback
Coalesce(x, fallback) == IF x = Undefined THEN fallback ELSE x

\* 10^k
RECURSIVE Pow10(_)
Pow10(k) == IF k = 0 THEN 1 ELSE 10 * Pow10(k - 1)

\* <<floor(r * 10^k / d), remainder>> for 0 <= r < d, digit by digit
RECURSIVE LongDivision(_, _, _)
LongDivision(r, d, k) ==
  IF k = 0 THEN <<0, r>>
  ELSE LET prev == LongDivision(r, d, k - 1)
       IN <<prev[1] * 10 + (prev[2] * 10) \div d, (prev[2] * 10) % d>>

\* The digits of x.toFixed(digits) as the integer round(|x| * 10^digits),
\* ties away from zero (the larger n of the two closest).
FixedMagnitude(x, digits) ==
  LET n == Abs(x[1])
      d == x[2]
      frac == LongDivision(n % d, d, digits)
  IN (n \div d) * Pow10(digits) + frac[1] + (IF 2 * frac[2] >= d THEN 1 ELSE 0)

\* x.toFixed(digits) as used in the cache keys, one integer per string:
\* the digits for x >= 0, -1 for "NaN", -2 for "Infinity", -3 for
\* "-Infinity", and -(4 + digits) for a minus sign before the digits
ToFixed(x, digits) ==
  IF IsNum(x)
  THEN (IF x[1] < 0 THEN -(4 + FixedMagnitude(x, digits)) ELSE FixedMagnitude(x, digits))
  ELSE IF x = PosInfinity THEN -2
  ELSE IF x = NegInfinity THEN -3
  ELSE -1

----------------------------------------------------------------------------
(* Fixed-point trigonometry                                                *)

Scale == 10000

\* floor(x * y / Scale) for x, y >= 0 without leaving 32 bits
MulFix(x, y) == (x \div Scale) * y + ((x % Scale) * y) \div Scale

\* floor(x * Scale) for a rational x >= 0
ToFix(x) == (x[1] \div x[2]) * Scale + ((x[1] % x[2]) * Scale) \div x[2]

FromFix(k) == Rat(k, Scale)

\* Math.PI and Math.SQRT2 in fixed point
PiFix == 31416
Sqrt2Fix == 14142

\* degToRad: (degrees * Math.PI) / 180, radians in fixed point
degToRad(degrees) == MulFix(ToFix(degrees), PiFix) \div 180

SinFix(r) ==
  LET r2 == MulFix(r, r)
      r3 == MulFix(r2, r)
      r5 == MulFix(r3, r2)
      r7 == MulFix(r5, r2)
  IN r - (r3 \div 6) + (r5 \div 120) - (r7 \div 5040)

CosFix(r) ==
  LET r2 == MulFix(r, r)
      r4 == MulFix(r2, r2)
      r6 == MulFix(r4, r2)
  IN Scale - (r2 \div 2) + (r4 \div 24) - (r6 \div 720)

TanFix(r) == (SinFix(r) * Scale) \div CosFix(r)

----------------------------------------------------------------------------
(* Requests                                                                *)

CornerIds == <<"topLeft", "topRight", "bottomLeft", "bottomRight">>

CornerSet == {"topLeft", "topRight", "bottomLeft", "bottomRight"}

\* buildSquirclePath, lines 32-46: defaults and the four resolved radii
Resolved(req) ==
  LET cornerRadius == Coalesce(req.cornerRadius, Zero)
  IN [cornerRadius |-> cornerRadius,
      topLeft |-> Coalesce(req.topLeftCornerRadius, cornerRadius),
      topRight |-> Coalesce(req.topRightCornerRadius, cornerRadius),
      bottomLeft |-> Coalesce(req.bottomLeftCornerRadius, cornerRadius),
      bottomRight |-> Coalesce(req.bottomRightCornerRadius, cornerRadius),
      cornerSmoothing |-> req.cornerSmoothing,
      width |-> req.width,
      height |-> req.height,
      preserveSmoothing |-> (req.preserveSmoothing = "true")]

----------------------------------------------------------------------------
(* Path cache                                                              *)

PATH_CACHE_LIMIT == 160

composeCacheKey(data) ==
  <<ToFixed(data.width, 2),
    ToFixed(data.height, 2),
    ToFixed(data.cornerSmoothing, 4),
    IF data.preserveSmoothing THEN 1 ELSE 0,
    ToFixed(data.cornerRadius, 2),
    ToFixed(data.topLeft, 2),
    ToFixed(data.topRight, 2),
    ToFixed(data.bottomRight, 2),
    ToFixed(data.bottomLeft, 2)>>

\* PATH_CACHE_MAP is a sequence of [key, value] in insertion order
HasCachedPath(cache, key) == \E i \in 1..Len(cache) : cache[i].key = key

readCachedPath(cache, key) ==
  cache[CHOOSE i \in 1..Len(cache) : cache[i].key = key].value

\* Map.prototype.set: a present key keeps its place
MapSet(cache, key, value) ==
  IF HasCachedPath(cache, key)
  THEN [i \in 1..Len(cache) |->
          IF cache[i].key = key THEN [key |-> key, value |-> value] ELSE cache[i]]
  ELSE Append(cache, [key |-> key, value |-> value])

\* storeCachedPath without the pruning of lines 198-203
storeCachedPath_NoPrune(cache, key, value) == MapSet(cache, key, value)

\* storeCachedPath pruning the newest entry instead of the oldest
storeCachedPath_PruneNewest(cache, key, value) ==
  IF Len(cache) >= PATH_CACHE_LIMIT /\ ~HasCachedPath(cache, key)
  THEN MapSet(SubSeq(cache, 1, Len(cache) - 1), key, value)
  ELSE MapSet(cache, key, value)

storeCachedPath(cache, key, value) ==
  IF Len(cache) >= PATH_CACHE_LIMIT /\ ~HasCachedPath(cache, key)
  THEN MapSet(Tail(cache), key, value)
  ELSE MapSet(cache, key, value)

----------------------------------------------------------------------------
(* normalizeCorners                                                        *)

ADJACENT_RELATIONS ==
  [topLeft |-> <<[corner |-> "topRight", side |-> "top"],
                 [corner |-> "bottomLeft", side |-> "left"]>>,
   topRight |-> <<[corner |-> "topLeft", side |-> "top"],
                  [corner |-> "bottomRight", side |-> "right"]>>,
   bottomLeft |-> <<[corner |-> "bottomRight", side |-> "bottom"],
                    [corner |-> "topLeft", side |-> "left"]>>,
   bottomRight |-> <<[corner |-> "bottomLeft", side |-> "bottom"],
                     [corner |-> "topRight", side |-> "right"]>>]

\* Object.entries(radiusMap).sort(([, r1], [, r2]) => r2 - r1): the corners
\* by descending radius, radii that compare neither way in the order of
\* CornerIds (stable sort)
SortedCorners(radii) ==
  LET rank(i) ==
        Cardinality({j \in 1..4 : Lt(radii[CornerIds[i]], radii[CornerIds[j]])})
        + Cardinality({j \in 1..(i - 1) :
                         /\ ~Lt(radii[CornerIds[j]], radii[CornerIds[i]])
                         /\ ~Lt(radii[CornerIds[i]], radii[CornerIds[j]])})
  IN [k \in 1..4 |-> CornerIds[CHOOSE i \in 1..4 : rank(i) = k - 1]]

\* EdgeTerm without the guard of lines 274-276
EdgeTerm_NoZeroGuard(radius, adjacent, radiusMap, budgetMap, width, height) ==
  LET adjacentRadius == radiusMap[adjacent.corner]
      adjacentBudget == budgetMap[adjacent.corner]
      sideLength == IF adjacent.side \in {"top", "bottom"} THEN width ELSE height
  IN IF Le(Zero, adjacentBudget) THEN Sub(sideLength, adjacentBudget)
     ELSE Mul(Div(radius, Add(radius, adjacentRadius)), sideLength)

\* EdgeTerm giving the whole side where lines 274-276 give 0
EdgeTerm_ZeroEdgeFree(radius, adjacent, radiusMap, budgetMap, width, height) ==
  LET adjacentRadius == radiusMap[adjacent.corner]
      adjacentBudget == budgetMap[adjacent.corner]
      sideLength == IF adjacent.side \in {"top", "bottom"} THEN width ELSE height
  IN IF StrictEq(radius, Zero) /\ StrictEq(adjacentRadius, Zero) THEN sideLength
     ELSE IF Le(Zero, adjacentBudget) THEN Sub(sideLength, adjacentBudget)
     ELSE Mul(Div(radius, Add(radius, adjacentRadius)), sideLength)

\* the callback of adjacents.map, lines 272-287
EdgeTerm(radius, adjacent, radiusMap, budgetMap, width, height) ==
  LET adjacentRadius == radiusMap[adjacent.corner]
      adjacentBudget == budgetMap[adjacent.corner]
      sideLength == IF adjacent.side \in {"top", "bottom"} THEN width ELSE height
  IN IF StrictEq(radius, Zero) /\ StrictEq(adjacentRadius, Zero) THEN Zero
     ELSE IF Le(Zero, adjacentBudget) THEN Sub(sideLength, adjacentBudget)
     ELSE Mul(Div(radius, Add(radius, adjacentRadius)), sideLength)

\* NormalizeStep keeping the requested radius instead of clamping it (line 291)
NormalizeStep_NoClamp(corner, radius, maps, width, height) ==
  LET adjacents == ADJACENT_RELATIONS[corner]
      budget ==
        MathMin(EdgeTerm(radius, adjacents[1], maps.radiusMap, maps.budgetMap, width, height),
                EdgeTerm(radius, adjacents[2], maps.radiusMap, maps.budgetMap, width, height))
  IN [radiusMap |-> [maps.radiusMap EXCEPT ![corner] = radius],
      budgetMap |-> [maps.budgetMap EXCEPT ![corner] = budget]]

\* NormalizeStep taking the larger of the two edge terms as the budget
NormalizeStep_WidestEdge(corner, radius, maps, width, height) ==
  LET adjacents == ADJACENT_RELATIONS[corner]
      budget ==
        MathMax(EdgeTerm(radius, adjacents[1], maps.radiusMap, maps.budgetMap, width, height),
                EdgeTerm(radius, adjacents[2], maps.radiusMap, maps.budgetMap, width, height))
  IN [radiusMap |-> [maps.radiusMap EXCEPT ![corner] = MathMin(radius, budget)],
      budgetMap |-> [maps.budgetMap EXCEPT ![corner] = budget]]

\* one turn of the forEach, lines 267-292
NormalizeStep(corner, radius, maps, width, height) ==
  LET adjacents == ADJACENT_RELATIONS[corner]
      budget ==
        MathMin(EdgeTerm(radius, adjacents[1], maps.radiusMap, maps.budgetMap, width, height),
                EdgeTerm(radius, adjacents[2], maps.radiusMap, maps.budgetMap, width, height))
  IN [radiusMap |-> [maps.radiusMap EXCEPT ![corner] = MathMin(radius, budget)],
      budgetMap |-> [maps.budgetMap EXCEPT ![corner] = budget]]

RECURSIVE NormalizeFrom(_, _, _, _, _, _)
NormalizeFrom(k, order, requested, maps, width, height) ==
  IF k > 4 THEN maps
  ELSE NormalizeFrom(k + 1, order, requested,
                     NormalizeStep(order[k], requested[order[k]], maps, width, height),
                     width, height)

\* returns, per corner, [radius, roundingAndSmoothingBudget]
normalizeCorners(requested, width, height) ==
  LET maps == NormalizeFrom(1, SortedCorners(requested), requested,
                            [radiusMap |-> requested,
                             budgetMap |-> [c \in CornerSet |-> OfInt(-1)]],
                            width, height)
  IN [c \in CornerSet |->
        [radius |-> maps.radiusMap[c],
         roundingAndSmoothingBudget |-> maps.budgetMap[c]]]

----------------------------------------------------------------------------
(* computeCornerProfile                                                    *)

ZeroProfile ==
  [a |-> Zero, b |-> Zero, c |-> Zero, d |-> Zero, p |-> Zero,
   cornerRadius |-> Zero, arcSectionLength |-> Zero]

\* what the arithmetic of lines 354-395 gives on a NaN radius or budget
NaNProfile ==
  [a |-> NaN, b |-> NaN, c |-> NaN, d |-> NaN, p |-> NaN,
   cornerRadius |-> NaN, arcSectionLength |-> NaN]

\* lines 356-360: the smoothing used for the curve
EffectiveSmoothing(cornerRadius, cornerSmoothing, preserveSmoothing, budget) ==
  IF preserveSmoothing THEN cornerSmoothing
  ELSE MathMin(cornerSmoothing, Sub(Div(budget, cornerRadius), OfInt(1)))

\* line 362
ArcMeasure(smoothing) == Mul(OfInt(90), Sub(OfInt(1), smoothing))

\* lines 354-360: the footprint before the preserve-smoothing clamp
Footprint(cornerRadius, cornerSmoothing, preserveSmoothing, budget) ==
  LET p == Mul(Add(OfInt(1), cornerSmoothing), cornerRadius)
  IN IF preserveSmoothing THEN p ELSE MathMin(p, budget)

\* lines 387-395
ProfileRecord(ab, c, d, p, cornerRadius, arcSectionLength) ==
  [a |-> ab.a, b |-> ab.b, c |-> FromFix(c), d |-> FromFix(d), p |-> p,
   cornerRadius |-> cornerRadius,
   arcSectionLength |-> FromFix(arcSectionLength)]

\* ClampedShoulder keeping a = 2b after b was clamped
ClampedShoulder_TwoToOne(b, p1ToP3MaxDistance) ==
  [a |-> Mul(OfInt(2), b), b |-> b]

\* lines 382-383: b = Math.min(b, maxB), a = p1ToP3MaxDistance - b
ClampedShoulder(b, p1ToP3MaxDistance) ==
  [a |-> Sub(p1ToP3MaxDistance, b), b |-> b]

\* lines 376-385: a and b, clamped against the budget in preserve mode
ShoulderDistances(b0, clamp, p1ToP3MaxDistance) ==
  IF clamp
  THEN ClampedShoulder(MathMin(b0, Sub(p1ToP3MaxDistance,
                                       Div(p1ToP3MaxDistance, OfInt(6)))),
                       p1ToP3MaxDistance)
  ELSE [a |-> Mul(OfInt(2), b0), b |-> b0]

\* lines 373-395, from the footprint p0 and the distances in fixed point
ProfileFromDistances(cornerRadius, preserveSmoothing, budget, p0, arcSectionLength, c, d) ==
  ProfileRecord(
    ShoulderDistances(Div(Sub(p0, FromFix(arcSectionLength + c + d)), OfInt(3)),
                      preserveSmoothing /\ Lt(budget, p0),
                      Sub(budget, FromFix(d + arcSectionLength + c))),
    c, d,
    IF preserveSmoothing /\ Lt(budget, p0) THEN MathMin(p0, budget) ELSE p0,
    cornerRadius, arcSectionLength)

\* lines 370-371: c and d from p3ToP4Distance and angleBeta (radians)
ProfileFromC(cornerRadius, preserveSmoothing, budget, p0, arcSectionLength, c, tanBeta) ==
  ProfileFromDistances(cornerRadius, preserveSmoothing, budget, p0,
                       arcSectionLength, c, MulFix(c, tanBeta))

\* lines 363-370, from the three angles in radians
ProfileFromAngles(cornerRadius, preserveSmoothing, budget, p0, radiusFix, halfArc, halfAlpha, beta) ==
  ProfileFromC(cornerRadius, preserveSmoothing, budget, p0,
               MulFix(MulFix(SinFix(halfArc), radiusFix), Sqrt2Fix),
               MulFix(MulFix(radiusFix, TanFix(halfAlpha)), CosFix(beta)),
               TanFix(beta))

\* lines 362-369, from the smoothing used: arcMeasure / 2, angleAlpha / 2
\* and angleBeta
ProfileFromSmoothing(cornerRadius, preserveSmoothing, budget, p0, arcMeasure, smoothing) ==
  ProfileFromAngles(cornerRadius, preserveSmoothing, budget, p0, ToFix(cornerRadius),
                    degToRad(Div(arcMeasure, OfInt(2))),
                    degToRad(Div(Div(Sub(OfInt(90), arcMeasure), OfInt(2)), OfInt(2))),
                    degToRad(Mul(OfInt(45), smoothing)))

\* lines 354-362
CurvedProfile(cornerRadius, preserveSmoothing, budget, p0, smoothing) ==
  ProfileFromSmoothing(cornerRadius, preserveSmoothing, budget, p0,
                       ArcMeasure(smoothing), smoothing)

\* lines 340-395: the profile computed on a cache miss
CornerProfileOf(cornerRadius, cornerSmoothing, preserveSmoothing, budget) ==
  IF Le(cornerRadius, Zero) \/ Le(budget, Zero) THEN ZeroProfile
  ELSE IF ~IsNum(cornerRadius) \/ ~IsNum(budget) \/ ~IsNum(cornerSmoothing)
  THEN NaNProfile
  ELSE CurvedProfile(
         cornerRadius, preserveSmoothing, budget,
         Footprint(cornerRadius, cornerSmoothing, preserveSmoothing, budget),
         EffectiveSmoothing(cornerRadius, cornerSmoothing, preserveSmoothing, budget))

cornerProfileCacheKey(cornerRadius, cornerSmoothing, preserveSmoothing, budget) ==
  <<ToFixed(cornerRadius, 3),
    ToFixed(cornerSmoothing, 4),
    IF preserveSmoothing THEN 1 ELSE 0,
    ToFixed(budget, 3)>>

\* lines 335-338 and 350, 397: the cached profile, or the computed one stored
ProfileLookup(cacheKey, profile, cache, enabled) ==
  IF enabled /\ cacheKey \in DOMAIN cache
  THEN [profile |-> cache[cacheKey], cache |-> cache]
  ELSE [profile |-> profile,
        cache |-> IF enabled THEN (cacheKey :> profile) @@ cache ELSE cache]

\* CORNER_PROFILE_CACHE is a function from keys to profiles.  With the cache
\* disabled every call computes its profile.
computeCornerProfile(cornerRadius, cornerSmoothing, preserveSmoothing, budget, cache, enabled) ==
  ProfileLookup(
    cornerProfileCacheKey(cornerRadius, cornerSmoothing, preserveSmoothing, budget),
    CornerProfileOf(cornerRadius, cornerSmoothing, preserveSmoothing, budget),
    cache, enabled)

----------------------------------------------------------------------------
(* Path strings                                                            *)
(* A path is the sequence of the tokens of the string; the white space     *)
(* between tokens is fixed text of the templates and is left out.          *)

Cmd(s) == [k |-> s, n |-> 0, d |-> 0]

\* `${x}` in a plain template: String(x), which is exact
Raw(x) == IF IsNum(x) THEN [k |-> "number", n |-> x[1], d |-> x[2]]
          ELSE IF IsInf(x) THEN [k |-> "Infinity", n |-> x[1], d |-> 0]
          ELSE [k |-> "NaN", n |-> 0, d |-> 0]

\* a digit written in the template text
Lit(i) == Raw(OfInt(i))

\* `${x}` in formatSegment: x.toFixed(4), digits and sign
Fixed4(x) ==
  IF IsNum(x)
  THEN [k |-> "toFixed", n |-> FixedMagnitude(x, 4), d |-> IF x[1] < 0 THEN -1 ELSE 1]
  ELSE IF IsInf(x) THEN [k |-> "Infinity", n |-> x[1], d |-> 0]
  ELSE [k |-> "NaN", n |-> 0, d |-> 0]

\* `-${x}` in formatSegment: a minus sign written before x.toFixed(4)
MinusFixed4(x) ==
  IF IsNum(x)
  THEN [k |-> "-toFixed", n |-> FixedMagnitude(x, 4), d |-> IF x[1] < 0 THEN -1 ELSE 1]
  ELSE IF IsInf(x) THEN [k |-> "-Infinity", n |-> x[1], d |-> 0]
  ELSE [k |-> "-NaN", n |-> 0, d |-> 0]

\* if (cornerRadius): neither 0 nor NaN
Truthy(x) == IsOrdered(x) /\ x[1] # 0

Sum3(x, y, z) == Add(Add(x, y), z)

traceTopRight(q) ==
  IF Truthy(q.cornerRadius)
  THEN <<Cmd("c"), Fixed4(q.a), Lit(0), Fixed4(Add(q.a, q.b)), Lit(0),
         Fixed4(Sum3(q.a, q.b, q.c)), Fixed4(q.d),
         Cmd("a"), Fixed4(q.cornerRadius), Fixed4(q.cornerRadius), Lit(0), Lit(0), Lit(1),
         Fixed4(q.arcSectionLength), Fixed4(q.arcSectionLength),
         Cmd("c"), Fixed4(q.d), Fixed4(q.c), Fixed4(q.d), Fixed4(Add(q.b, q.c)),
         Fixed4(q.d), Fixed4(Sum3(q.a, q.b, q.c))>>
  ELSE <<Cmd("l"), Fixed4(q.p), Lit(0)>>

traceBottomRight(q) ==
  IF Truthy(q.cornerRadius)
  THEN <<Cmd("c"), Lit(0), Fixed4(q.a), Lit(0), Fixed4(Add(q.a, q.b)),
         Fixed4(Neg(q.d)), Fixed4(Sum3(q.a, q.b, q.c)),
         Cmd("a"), Fixed4(q.cornerRadius), Fixed4(q.cornerRadius), Lit(0), Lit(0), Lit(1),
         MinusFixed4(q.arcSectionLength), Fixed4(q.arcSectionLength),
         Cmd("c"), Fixed4(Neg(q.c)), Fixed4(q.d), Fixed4(Neg(Add(q.b, q.c))),
         Fixed4(q.d), Fixed4(Neg(Sum3(q.a, q.b, q.c))), Fixed4(q.d)>>
  ELSE <<Cmd("l"), Lit(0), Fixed4(q.p)>>

traceBottomLeft(q) ==
  IF Truthy(q.cornerRadius)
  THEN <<Cmd("c"), Fixed4(Neg(q.a)), Lit(0), Fixed4(Neg(Add(q.a, q.b))), Lit(0),
         Fixed4(Neg(Sum3(q.a, q.b, q.c))), Fixed4(Neg(q.d)),
         Cmd("a"), Fixed4(q.cornerRadius), Fixed4(q.cornerRadius), Lit(0), Lit(0), Lit(1),
         MinusFixed4(q.arcSectionLength), MinusFixed4(q.arcSectionLength),
         Cmd("c"), Fixed4(Neg(q.d)), Fixed4(Neg(q.c)), Fixed4(Neg(q.d)),
         Fixed4(Neg(Add(q.b, q.c))), Fixed4(Neg(q.d)), Fixed4(Neg(Sum3(q.a, q.b, q.c)))>>
  ELSE <<Cmd("l"), Fixed4(Neg(q.p)), Lit(0)>>

traceTopLeft(q) ==
  IF Truthy(q.cornerRadius)
  THEN <<Cmd("c"), Lit(0), Fixed4(Neg(q.a)), Lit(0), Fixed4(Neg(Add(q.a, q.b))),
         Fixed4(q.d), Fixed4(Neg(Sum3(q.a, q.b, q.c))),
         Cmd("a"), Fixed4(q.cornerRadius), Fixed4(q.cornerRadius), Lit(0), Lit(0), Lit(1),
         Fixed4(q.arcSectionLength), MinusFixed4(q.arcSectionLength),
         Cmd("c"), Fixed4(q.c), Fixed4(Neg(q.d)), Fixed4(Add(q.b, q.c)),
         Fixed4(Neg(q.d)), Fixed4(Sum3(q.a, q.b, q.c)), Fixed4(Neg(q.d))>>
  ELSE <<Cmd("l"), Lit(0), Fixed4(Neg(q.p))>>

\* (variant: the two right-hand corners are drawn with each other's profile)
joinCornerProfiles_RightSwapped(width, height, topLeft, topRight, bottomLeft, bottomRight) ==
  <<Cmd("M"), Raw(Sub(width, topRight.p)), Lit(0)>>
  \o traceTopRight(bottomRight)
  \o <<Cmd("L"), Raw(width), Raw(Sub(height, bottomRight.p))>>
  \o traceBottomRight(topRight)
  \o <<Cmd("L"), Raw(bottomLeft.p), Raw(height)>>
  \o traceBottomLeft(bottomLeft)
  \o <<Cmd("L"), Lit(0), Raw(topLeft.p)>>
  \o traceTopLeft(topLeft)
  \o <<Cmd("Z")>>

joinCornerProfiles(width, height, topLeft, topRight, bottomLeft, bottomRight) ==
  <<Cmd("M"), Raw(Sub(width, topRight.p)), Lit(0)>>
  \o traceTopRight(topRight)
  \o <<Cmd("L"), Raw(width), Raw(Sub(height, bottomRight.p))>>
  \o traceBottomRight(bottomRight)
  \o <<Cmd("L"), Raw(bottomLeft.p), Raw(height)>>
  \o traceBottomLeft(bottomLeft)
  \o <<Cmd("L"), Lit(0), Raw(topLeft.p)>>
  \o traceTopLeft(topLeft)
  \o <<Cmd("Z")>>

\* line 72
rectanglePath(width, height) ==
  <<Cmd("M"), Raw(width), Lit(0), Cmd("L"), Raw(width), Raw(height),
    Cmd("L"), Lit(0), Raw(height), Cmd("L"), Lit(0), Lit(0), Cmd("Z")>>

----------------------------------------------------------------------------
(* buildSquirclePath                                                       *)

NoProfiles == <<>>

\* lines 87-96
SymmetricResult(r, radius, budget, res) ==
  [path |-> joinCornerProfiles(r.width, r.height, res.profile, res.profile,
                               res.profile, res.profile),
   profileCache |-> res.cache,
   branch |-> "symmetric",
   corners |-> [c \in CornerSet |->
                  [radius |-> radius, roundingAndSmoothingBudget |-> budget]],
   profiles |-> [c \in CornerSet |-> res.profile]]

\* lines 77-85
SymmetricCurve(r, budget, radius, profileCache_, enabled) ==
  SymmetricResult(r, radius, budget,
                  computeCornerProfile(radius, r.cornerSmoothing, r.preserveSmoothing,
                                       budget, profileCache_, enabled))

\* lines 71-97: four equal radii
SymmetricPath(r, profileCache_, enabled) ==
  IF StrictEq(r.topLeft, Zero)
  THEN [path |-> rectanglePath(r.width, r.height),
        profileCache |-> profileCache_,
        branch |-> "rectangle",
        corners |-> NoProfiles,
        profiles |-> NoProfiles]
  ELSE SymmetricCurve(r, Div(MathMin(r.width, r.height), OfInt(2)),
                      MathMin(r.topLeft, Div(MathMin(r.width, r.height), OfInt(2))),
                      profileCache_, enabled)

\* the order in which lines 111-135 call computeCornerProfile
ProfileOrder == <<"topLeft", "topRight", "bottomRight", "bottomLeft">>

\* one call of lines 111-135: the profile of corner c is added and the cache
\* handed on
ProfileStep(c, acc, res) ==
  [cache |-> res.cache, profiles |-> (c :> res.profile) @@ acc.profiles]

RECURSIVE ProfilesFrom(_, _, _, _, _)
ProfilesFrom(k, r, corners, acc, enabled) ==
  IF k > 4 THEN acc
  ELSE ProfilesFrom(
         k + 1, r, corners,
         ProfileStep(ProfileOrder[k], acc,
                     computeCornerProfile(
                       corners[ProfileOrder[k]].radius, r.cornerSmoothing,
                       r.preserveSmoothing,
                       corners[ProfileOrder[k]].roundingAndSmoothingBudget,
                       acc.cache, enabled)),
         enabled)

\* lines 108-136
NormalizedResult(r, corners, acc) ==
  [path |-> joinCornerProfiles(r.width, r.height, acc.profiles["topLeft"],
                               acc.profiles["topRight"], acc.profiles["bottomLeft"],
                               acc.profiles["bottomRight"]),
   profileCache |-> acc.cache,
   branch |-> "normalized",
   corners |-> corners,
   profiles |-> acc.profiles]

NormalizedProfiles(r, corners, profileCache_, enabled) ==
  NormalizedResult(r, corners,
                   ProfilesFrom(1, r, corners,
                                [cache |-> profileCache_,
                                 profiles |-> [c \in {} |-> ZeroProfile]],
                                enabled))

\* lines 99-139
NormalizedPath(r, profileCache_, enabled) ==
  NormalizedProfiles(r, normalizeCorners([c \in CornerSet |-> r[c]], r.width, r.height),
                     profileCache_, enabled)

AllRadiiEqual(r) ==
  /\ StrictEq(r.topLeft, r.topRight)
  /\ StrictEq(r.topRight, r.bottomRight)
  /\ StrictEq(r.bottomRight, r.bottomLeft)
  /\ StrictEq(r.bottomLeft, r.topLeft)

\* lines 73, 95, 138: the computed path is stored and returned
StoredResult(cacheKey, res, pathCache_, enabled) ==
  [path |-> res.path,
   pathCache |-> IF enabled THEN storeCachedPath(pathCache_, cacheKey, res.path)
                 ELSE pathCache_,
   profileCache |-> res.profileCache,
   key |-> cacheKey,
   branch |-> res.branch,
   corners |-> res.corners,
   profiles |-> res.profiles]

\* lines 60-139
PathFor(r, cacheKey, pathCache_, profileCache_, enabled) ==
  IF enabled /\ HasCachedPath(pathCache_, cacheKey)
  THEN [path |-> readCachedPath(pathCache_, cacheKey),
        pathCache |-> pathCache_,
        profileCache |-> profileCache_,
        key |-> cacheKey,
        branch |-> "cached",
        corners |-> NoProfiles,
        profiles |-> NoProfiles]
  ELSE StoredResult(cacheKey,
                    IF AllRadiiEqual(r)
                    THEN SymmetricPath(r, profileCache_, enabled)
                    ELSE NormalizedPath(r, profileCache_, enabled),
                    pathCache_, enabled)

ResolvedPath(r, pathCache_, profileCache_, enabled) ==
  PathFor(r, composeCacheKey(r), pathCache_, profileCache_, enabled)

\* The whole call on the caches (pathCache_, profileCache_): the returned path,
\* the caches after the call, and what the call computed on the way.  With
\* enabled = FALSE both caches are bypassed.
buildSquirclePath(req, pathCache_, profileCache_, enabled) ==
  ResolvedPath(Resolved(req), pathCache_, profileCache_, enabled)

----------------------------------------------------------------------------
(* core/params.ts: the smoothing validator                                 *)

INVALID_SMOOTH_FACTOR_ERROR ==
  "ExpoSquircle: \"smoothFactor\" must be a finite number between 0 and 1."

\* clamp without its upper limit
clamp_NoMax(value, min, max) == MathMax(min, value)

clamp(value, min, max) == MathMin(max, MathMax(min, value))

normalizeSmoothFactor(value) ==
  IF ~IsNumberType(value) \/ ~IsNum(value)
  THEN [threw |-> TRUE, message |-> INVALID_SMOOTH_FACTOR_ERROR, result |-> Undefined]
  ELSE [threw |-> FALSE, message |-> "", result |-> clamp(value, Zero, OfInt(1))]

SQUIRCLE_PARAM_ERROR ==
  "ExpoSquircle: The \"squircleParams\" prop is required to draw the background."

\* sanitizeRadius: undefined for a non-number and for NaN, else Math.max(0, value)
sanitizeRadius(value) ==
  IF ~IsNumberType(value) \/ value = NaN THEN Undefined ELSE MathMax(Zero, value)

\* normalizeSquircleParams; the two colours take no part in the path and are
\* left out
normalizeSquircleParams(params) ==
  IF ~params.given
  THEN [threw |-> TRUE, message |-> SQUIRCLE_PARAM_ERROR]
  ELSE IF normalizeSmoothFactor(params.smoothFactor).threw
  THEN [threw |-> TRUE, message |-> INVALID_SMOOTH_FACTOR_ERROR]
  ELSE [threw |-> FALSE,
        message |-> "",
        baseRadius |-> Coalesce(sanitizeRadius(params.baseRadius), Zero),
        borderWidth |-> Coalesce(sanitizeRadius(params.borderWidth), Zero),
        topLeftRadius |-> sanitizeRadius(params.topLeftRadius),
        topRightRadius |-> sanitizeRadius(params.topRightRadius),
        bottomRightRadius |-> sanitizeRadius(params.bottomRightRadius),
        bottomLeftRadius |-> sanitizeRadius(params.bottomLeftRadius),
        smoothFactor |-> normalizeSmoothFactor(params.smoothFactor).result]

shrinkRadius(radius, insetAmount) ==
  IF IsNumberType(radius) THEN MathMax(Zero, Sub(radius, insetAmount)) ELSE radius

----------------------------------------------------------------------------
(* ExpoSquircle.tsx: the request SquircleBackdrop makes                    *)

\* Math.min(...values) of a non-empty set: NaN if a value is NaN
MinOf(values) ==
  IF \E x \in values : ~IsOrdered(x) THEN NaN
  ELSE CHOOSE x \in values : \A y \in values : Le(x, y)

\* lines 169-177: the radii that are numbers > 0
PositiveRadii(params) ==
  {x \in {params.baseRadius, params.topLeftRadius, params.topRightRadius,
          params.bottomLeftRadius, params.bottomRightRadius} :
     IsNumberType(x) /\ Lt(Zero, x)}

\* lines 147, 179-181: Math.min(normalizedStrokeWidth, maxStrokeWidth)
ClampedStrokeWidth(params) ==
  IF PositiveRadii(params) = {}
  THEN MathMin(MathMax(Zero, params.borderWidth), MathMax(Zero, params.borderWidth))
  ELSE MathMin(MathMax(Zero, params.borderWidth), MinOf(PositiveRadii(params)))

\* lines 149-159: basePath()
BasePathRequest(layoutWidth, layoutHeight, params) ==
  [cornerRadius |-> params.baseRadius,
   topLeftCornerRadius |-> params.topLeftRadius,
   topRightCornerRadius |-> params.topRightRadius,
   bottomRightCornerRadius |-> params.bottomRightRadius,
   bottomLeftCornerRadius |-> params.bottomLeftRadius,
   cornerSmoothing |-> params.smoothFactor,
   width |-> layoutWidth,
   height |-> layoutHeight,
   preserveSmoothing |-> "undefined"]

\* lines 191-202: the inset request
InsetPathRequest(layoutWidth, layoutHeight, params, clampedStrokeWidth, inset) ==
  [cornerRadius |-> shrinkRadius(params.baseRadius, inset),
   topLeftCornerRadius |-> shrinkRadius(params.topLeftRadius, inset),
   topRightCornerRadius |-> shrinkRadius(params.topRightRadius, inset),
   bottomRightCornerRadius |-> shrinkRadius(params.bottomRightRadius, inset),
   bottomLeftCornerRadius |-> shrinkRadius(params.bottomLeftRadius, inset),
   cornerSmoothing |-> params.smoothFactor,
   width |-> Sub(layoutWidth, clampedStrokeWidth),
   height |-> Sub(layoutHeight, clampedStrokeWidth),
   preserveSmoothing |-> "undefined"]

\* lines 142-208: whether buildSquirclePath is called, and with what
BackdropCall(layoutWidth, layoutHeight, params, clampedStrokeWidth) ==
  IF StrictEq(layoutWidth, Zero) \/ StrictEq(layoutHeight, Zero)
  THEN [call |-> FALSE]
  ELSE IF StrictEq(MathMax(Zero, params.borderWidth), Zero) \/ Le(clampedStrokeWidth, Zero)
  THEN [call |-> TRUE, inset |-> FALSE,
        req |-> BasePathRequest(layoutWidth, layoutHeight, params)]
  ELSE [call |-> TRUE, inset |-> TRUE,
        req |-> InsetPathRequest(layoutWidth, layoutHeight, params, clampedStrokeWidth,
                                 Div(clampedStrokeWidth, OfInt(2)))]

\* lines 127-128: layout?.width ?? 0, layout?.height ?? 0
SquircleBackdrop(layout, params) ==
  BackdropCall(IF layout.measured THEN layout.width ELSE Zero,
               IF layout.measured THEN layout.height ELSE Zero,
               params, ClampedStrokeWidth(params))

----------------------------------------------------------------------------
(* Inputs                                                                  *)

\* the largest requested radius, in length units
MaxRadius == 3

\* a difference below the precision of every cache key: 0.0008
Jitter == Rat(1, 1250)

BoxSizes ==
  {<<OfInt(2), OfInt(3)>>, <<Add(OfInt(2), Jitter), OfInt(3)>>,
   <<OfInt(4), OfInt(2)>>, <<OfInt(4), Add(OfInt(2), Jitter)>>,
   <<Zero, OfInt(3)>>, <<OfInt(2), Zero>>, <<Div(Jitter, OfInt(2)), OfInt(3)>>}

Smoothings == {Zero, Rat(3, 5), OfInt(1)}

PreserveFlags == {"undefined", "false", "true"}

Request(cornerRadius, tl, tr, br, bl, smoothing, box, preserve) ==
  [cornerRadius |-> cornerRadius,
   topLeftCornerRadius |-> tl,
   topRightCornerRadius |-> tr,
   bottomRightCornerRadius |-> br,
   bottomLeftCornerRadius |-> bl,
   cornerSmoothing |-> smoothing,
   width |-> box[1],
   height |-> box[2],
   preserveSmoothing |-> preserve]

Radii == {OfInt(k) : k \in 0..MaxRadius}

\* four independently chosen radii
ExplicitRequests ==
  {Request(Undefined, tl, tr, br, bl, s, box, pr) :
     tl \in Radii, tr \in Radii, br \in Radii, bl \in Radii,
     s \in {Rat(3, 5)}, box \in BoxSizes, pr \in {"undefined", "true"}}

\* radii inherited from the base radius, and every smoothing and flag
InheritingRequests ==
  {Request(base, tl, Undefined, br, Undefined, s, box, pr) :
     base \in Radii \cup {Undefined}, tl \in {Undefined, Zero},
     br \in {Undefined, OfInt(1)},
     s \in Smoothings, box \in BoxSizes, pr \in PreserveFlags}

AllRequests == ExplicitRequests \cup InheritingRequests

----------------------------------------------------------------------------
(* State machine                                                           *)

NoProfileCache == [k \in {} |-> ZeroProfile]

NoPaths == [r \in {} |-> <<>>]

Init ==
  /\ pathCache = <<>>
  /\ profileCache = NoProfileCache
  /\ last = [op |-> "none"]
  /\ calls = 0
  /\ firstPath = NoPaths
  /\ swept = 0
  /\ after = 0

\* the caches after a call, the call as last seen, and the path the request
\* returned the first time it was made
Returned(req, res) ==
  /\ pathCache' = res.pathCache
  /\ profileCache' = res.profileCache
  /\ last' = [op |-> "buildSquirclePath",
              req |-> req,
              path |-> res.path,
              key |-> res.key,
              branch |-> res.branch,
              corners |-> res.corners,
              profiles |-> res.profiles]
  /\ calls' = calls + 1
  /\ firstPath' = IF req \in DOMAIN firstPath THEN firstPath
                  ELSE (req :> res.path) @@ firstPath

\* one call of buildSquirclePath on the module's caches
Build(req) == Returned(req, buildSquirclePath(req, pathCache, profileCache, TRUE))

\* the first call after the module is loaded, on any request
BuildOnce ==
  /\ calls = 0
  /\ \E req \in AllRequests : Build(req) /\ UNCHANGED <<swept, after>>

NextOnce == BuildOnce

SpecOnce == Init /\ [][NextOnce]_vars

(* Sequences of calls on a few shapes in boxes that differ by Jitter        *)

MaxCalls == 2

Shapes ==
  {<<Undefined, Zero, Zero, Zero, Zero>>,
   <<OfInt(1), Undefined, Undefined, Undefined, Undefined>>,
   <<Undefined, OfInt(3), OfInt(3), OfInt(3), OfInt(3)>>,
   <<Undefined, Zero, Zero, OfInt(1), Zero>>,
   <<Undefined, OfInt(3), OfInt(1), Zero, OfInt(1)>>}

SequenceBoxes ==
  {<<OfInt(2), OfInt(3)>>, <<Add(OfInt(2), Jitter), OfInt(3)>>, <<Zero, OfInt(3)>>}

Requests ==
  {Request(sh[1], sh[2], sh[3], sh[4], sh[5], Rat(3, 5), box, pr) :
     sh \in Shapes, box \in SequenceBoxes, pr \in {"undefined", "true"}}

BuildAny ==
  \E req \in Requests : calls < MaxCalls /\ Build(req) /\ UNCHANGED <<swept, after>>

Next == BuildAny

Spec == Init /\ [][Next]_vars

(* A sweep of the layout width through SweepLen distinct sizes, with up to *)
(* MaxBefore calls on the probe shapes before it and MaxAfter after it      *)

SweepLen == 161
MaxBefore == 1
MaxAfter == 2

SweepRequest(k) ==
  Request(Undefined, Undefined, Undefined, Undefined, Undefined, Rat(3, 5),
          <<OfInt(10 + k), OfInt(3)>>, "undefined")

ProbeRequests ==
  {Request(OfInt(1), Undefined, Undefined, Undefined, Undefined, Rat(3, 5), box,
           "undefined") :
     box \in {<<OfInt(2), OfInt(3)>>, <<Add(OfInt(2), Jitter), OfInt(3)>>}}

ProbeBefore ==
  \E req \in ProbeRequests :
    /\ swept = 0
    /\ calls < MaxBefore
    /\ Build(req)
    /\ UNCHANGED <<swept, after>>

Sweep ==
  /\ after = 0
  /\ swept < SweepLen
  /\ Build(SweepRequest(swept))
  /\ swept' = swept + 1
  /\ UNCHANGED after

ProbeAfter ==
  \E req \in ProbeRequests :
    /\ swept > 0
    /\ after < MaxAfter
    /\ Build(req)
    /\ after' = after + 1
    /\ UNCHANGED swept

\* the earliest request of the sweep whose entry is still in the path cache
OldestSwept == IF swept > PATH_CACHE_LIMIT THEN swept - PATH_CACHE_LIMIT ELSE 0

\* the caller asks again for the earliest swept request still cached
Revisit ==
  /\ swept > 0
  /\ after = 0
  /\ Build(SweepRequest(OldestSwept))
  /\ after' = after + 1
  /\ UNCHANGED swept

NextSweep == ProbeBefore \/ Sweep \/ Revisit \/ ProbeAfter

SpecSweep == Init /\ [][NextSweep]_vars

(* Calls on one shape whose smoothing, box and radius vary a little       *)

MaxSmoothCalls == 3

\* radius 1 in a 4 x 5 box, and a radius 0.0004 larger in a 4 x 4 box: the
\* same budget 2, different path-cache keys
SmoothShapes ==
  {<<OfInt(1), <<OfInt(4), OfInt(5)>>>>,
   <<Add(OfInt(1), Div(Jitter, OfInt(2))), <<OfInt(4), OfInt(4)>>>>}

SmoothSteps == {Zero, Rat(3, 5), Add(Rat(3, 5), Div(Jitter, OfInt(4))), OfInt(1)}

SmoothRequests ==
  {Request(sh[1], Undefined, Undefined, Undefined, Undefined, sm, sh[2], pr) :
     sh \in SmoothShapes, sm \in SmoothSteps, pr \in {"false", "true"}}

BuildSmooth ==
  \E req \in SmoothRequests :
    calls < MaxSmoothCalls /\ Build(req) /\ UNCHANGED <<swept, after>>

NextSmooth == BuildSmooth

SpecSmooth == Init /\ [][NextSmooth]_vars

(* One render of the component on raw props and a measured frame         *)

\* every kind of value a prop can hold
RawRadii ==
  {Undefined, NonNumber, NaN, PosInfinity, NegInfinity,
   OfInt(-1), Zero, OfInt(1), OfInt(5)}

RawBorderWidths == {Undefined, NaN, PosInfinity, OfInt(-1), Zero, OfInt(1), OfInt(3)}

RawSmoothFactors == {Undefined, Rat(3, 5), OfInt(2)}

RawParams ==
  {[given |-> FALSE]}
  \cup {[given |-> TRUE,
         baseRadius |-> base,
         topLeftRadius |-> tl,
         topRightRadius |-> Undefined,
         bottomRightRadius |-> br,
         bottomLeftRadius |-> Undefined,
         borderWidth |-> bw,
         smoothFactor |-> sf] :
          base \in RawRadii, tl \in RawRadii, br \in {Undefined, OfInt(2)},
          bw \in RawBorderWidths, sf \in RawSmoothFactors}

\* no frame yet, an empty frame, and two frames
Layouts ==
  {[measured |-> FALSE]}
  \cup {[measured |-> TRUE, width |-> box[1], height |-> box[2]] :
          box \in {<<Zero, OfInt(3)>>, <<OfInt(2), OfInt(3)>>, <<OfInt(4), OfInt(2)>>}}

\* the render drew nothing: the caches are as they were
NotDrawn(outcome) ==
  /\ last' = outcome
  /\ UNCHANGED <<pathCache, profileCache, calls, firstPath>>

\* SquircleBackdrop with its call of buildSquirclePath, if it makes one
Drawn(plan) ==
  IF plan.call THEN Build(plan.req)
  ELSE NotDrawn([op |-> "SquircleBackdrop", path |-> "null"])

\* ExpoSquircle: normalizeSquircleParams, then SquircleBackdrop
Rendered(layout, normalized) ==
  IF normalized.threw
  THEN NotDrawn([op |-> "normalizeSquircleParams", threw |-> TRUE,
                 message |-> normalized.message])
  ELSE Drawn(SquircleBackdrop(layout, normalized))

Render ==
  /\ calls = 0
  /\ \E params \in RawParams, layout \in Layouts :
       Rendered(layout, normalizeSquircleParams(params))
  /\ UNCHANGED <<swept, after>>

NextRender == Render

SpecRender == Init /\ [][NextRender]_vars

(* Calls of normalizeSmoothFactor on every kind of value                    *)

\* the finite arguments are the multiples of 1/20 from -SmoothRange/20 to
\* 1 + SmoothRange/20
SmoothRange == 40

SmoothArguments ==
  {Undefined, NonNumber, NaN, PosInfinity, NegInfinity}
  \cup {Rat(k, 20) : k \in (-SmoothRange)..(20 + SmoothRange)}

Validated(value, res) ==
  /\ last' = [op |-> "normalizeSmoothFactor",
              value |-> value,
              threw |-> res.threw,
              message |-> res.message,
              result |-> res.result]
  /\ UNCHANGED <<pathCache, profileCache, calls, firstPath, swept, after>>

Validate == \E value \in SmoothArguments : Validated(value, normalizeSmoothFactor(value))

NextParams == Validate

SpecParams == Init /\ [][NextParams]_vars

----------------------------------------------------------------------------
(* Properties                                                              *)

Built == last.op = "buildSquirclePath"

\* the call computed corner profiles (it was no cache hit and no rectangle)
Computed == Built /\ last.branch \in {"symmetric", "normalized"}

\* the four radii of the last request after the defaults
Requested == Resolved(last.req)

IsNumProfile(q) ==
  /\ IsNum(q.a) /\ IsNum(q.b) /\ IsNum(q.c) /\ IsNum(q.d) /\ IsNum(q.p)
  /\ IsNum(q.cornerRadius) /\ IsNum(q.arcSectionLength)

NonZeroCorners == {c \in CornerSet : Requested[c] # Zero}

\* C1: no call divides by zero (a zero denominator leaves NaN in the budget,
\* the radius or the profile of a corner) and no token of the returned path
\* is NaN.
C1_NoNaN ==
  Built =>
    /\ \A i \in 1..Len(last.path) : last.path[i].k \notin {"NaN", "-NaN"}
    /\ Computed =>
         \A c \in CornerSet :
           /\ IsNum(last.corners[c].radius)
           /\ IsNum(last.corners[c].roundingAndSmoothingBudget)
           /\ IsNumProfile(last.profiles[c])

\* C1 witness: a path computed for exactly one nonzero radius, that corner
\* drawn as a curve
C1_Witness ==
  /\ Built
  /\ last.branch = "normalized"
  /\ Cardinality(NonZeroCorners) = 1
  /\ \E c \in NonZeroCorners : last.profiles[c].cornerRadius # Zero

\* C2: normalizeSmoothFactor returns its argument clamped into [0, 1] for a
\* finite number and throws the smoothFactor error for every other value.
C2_SmoothFactor ==
  last.op = "normalizeSmoothFactor" =>
    IF IsNum(last.value)
    THEN /\ ~last.threw
         /\ Le(Zero, last.result) /\ Le(last.result, OfInt(1))
         /\ Lt(OfInt(1), last.value) => last.result = OfInt(1)
         /\ Lt(last.value, Zero) => last.result = Zero
         /\ (Le(Zero, last.value) /\ Le(last.value, OfInt(1))) => last.result = last.value
    ELSE /\ last.threw
         /\ last.message =
              "ExpoSquircle: \"smoothFactor\" must be a finite number between 0 and 1."

\* C2 witness: a value above 1 was clamped
C2_Witness ==
  /\ last.op = "normalizeSmoothFactor"
  /\ Lt(OfInt(1), last.value)
  /\ last.result = OfInt(1)

\* the footprint p of corner c in the last call
P(c) == last.profiles[c].p

\* C3: the footprints of the two corners on an edge sum to at most the
\* length of the edge, on the symmetric path and on the normalized one.
C3_FootprintsFitEdges ==
  Computed =>
    /\ Le(Add(P("topLeft"), P("topRight")), last.req.width)
    /\ Le(Add(P("bottomLeft"), P("bottomRight")), last.req.width)
    /\ Le(Add(P("topLeft"), P("bottomLeft")), last.req.height)
    /\ Le(Add(P("topRight"), P("bottomRight")), last.req.height)

\* C4: every profile a call obtains from computeCornerProfile has p within
\* the budget the call passed for that corner.
C4_FootprintWithinBudget ==
  Computed =>
    \A c \in CornerSet : Le(P(c), last.corners[c].roundingAndSmoothingBudget)

\* C5: every call returns the path that the engine returns for the same
\* request with both caches disabled.
C5_CacheTransparent ==
  Built => last.path = buildSquirclePath(last.req, <<>>, NoProfileCache, FALSE).path

\* C6: a request returns the same path every time it is made, whatever was
\* requested before or in between.
C6_Deterministic == Built => last.path = firstPath[last.req]

\* C7: a request whose four resolved radii are 0 returns the rectangle of its
\* own width and height.
C7_ZeroRadiiRectangle ==
  (Built /\ \A c \in CornerSet : Requested[c] = Zero) =>
    last.path = rectanglePath(last.req.width, last.req.height)

\* C8: the path cache never holds more than PATH_CACHE_LIMIT entries.
C8_PathCacheBounded == Len(pathCache) <= PATH_CACHE_LIMIT

\* C8 witness: a path was stored into a cache that was full
C8_Witness ==
  /\ Built
  /\ last.branch # "cached"
  /\ Len(pathCache) = PATH_CACHE_LIMIT
  /\ swept > PATH_CACHE_LIMIT

StoredEntry == [key |-> last.key, value |-> last.path]

\* C9: a hit leaves the cache and its order as they are; a miss on a cache
\* that is not full appends its entry and removes none; a miss on a full
\* cache removes exactly the entry inserted earliest and appends its own.
C9_FifoEviction ==
  [][/\ last'.branch = "cached" => pathCache' = pathCache
     /\ (last'.branch # "cached" /\ Len(pathCache) < PATH_CACHE_LIMIT) =>
          pathCache' = Append(pathCache, StoredEntry')
     /\ (last'.branch # "cached" /\ Len(pathCache) = PATH_CACHE_LIMIT) =>
          pathCache' = Append(Tail(pathCache), StoredEntry')]_vars

\* C9 witness: after evictions the oldest entry of the full cache was hit,
\* and the miss that followed evicted it
C9_Witness ==
  /\ Built
  /\ last.branch # "cached"
  /\ swept > PATH_CACHE_LIMIT
  /\ after = 2
  /\ Len(pathCache) = PATH_CACHE_LIMIT
  /\ ~HasCachedPath(pathCache, composeCacheKey(Resolved(SweepRequest(OldestSwept))))

\* C10: each corner's radius passed to computeCornerProfile is the smaller
\* of the requested radius and the corner's budget, the budget is never
\* negative, and with four equal radii the budget is min(width, height) / 2.
C10_RadiusClamped ==
  Computed =>
    /\ \A c \in CornerSet :
         /\ last.corners[c].radius =
              MathMin(Requested[c], last.corners[c].roundingAndSmoothingBudget)
         /\ Le(last.corners[c].radius, Requested[c])
         /\ Le(last.corners[c].radius, last.corners[c].roundingAndSmoothingBudget)
         /\ Le(Zero, last.corners[c].roundingAndSmoothingBudget)
    /\ last.branch = "symmetric" =>
         \A c \in CornerSet :
           last.corners[c].roundingAndSmoothingBudget =
             Div(MathMin(last.req.width, last.req.height), OfInt(2))

\* C10 witness: normalizeCorners gave a corner a budget below its requested
\* radius
C10_Witness ==
  /\ Computed
  /\ last.branch = "normalized"
  /\ \E c \in CornerSet :
       Lt(last.corners[c].roundingAndSmoothingBudget, Requested[c])

\* C11: every coordinate of a returned path has at most 4 decimal digits,
\* the operands of M and L as well as those that formatSegment writes.
C11_FourDecimals ==
  Built =>
    \A i \in 1..Len(last.path) :
      last.path[i].k = "number" => 10000 % last.path[i].d = 0

\* the commands of a path, in order, without their operands
Commands(path) == SelectSeq(path, LAMBDA t : t.k \in {"M", "L", "Z", "c", "a", "l"})

\* the commands of one corner: bezier, arc, bezier when it is curved, a single
\* relative line when it is not
CornerCommands(q) ==
  IF Truthy(q.cornerRadius) THEN <<Cmd("c"), Cmd("a"), Cmd("c")>> ELSE <<Cmd("l")>>

\* C12: a path assembled by joinCornerProfiles is M (width - p(topRight), 0),
\* the top-right corner, L (width, height - p(bottomRight)), the bottom-right
\* corner, L (p(bottomLeft), height), the bottom-left corner, L (0, p(topLeft)),
\* the top-left corner, Z, each corner drawn once with its own profile.
C12_ClockwiseOrder ==
  Computed =>
    /\ last.path =
         <<Cmd("M"), Raw(Sub(last.req.width, P("topRight"))), Lit(0)>>
         \o traceTopRight(last.profiles["topRight"])
         \o <<Cmd("L"), Raw(last.req.width), Raw(Sub(last.req.height, P("bottomRight")))>>
         \o traceBottomRight(last.profiles["bottomRight"])
         \o <<Cmd("L"), Raw(P("bottomLeft")), Raw(last.req.height)>>
         \o traceBottomLeft(last.profiles["bottomLeft"])
         \o <<Cmd("L"), Lit(0), Raw(P("topLeft"))>>
         \o traceTopLeft(last.profiles["topLeft"])
         \o <<Cmd("Z")>>
    /\ Commands(last.path) =
         <<Cmd("M")>> \o CornerCommands(last.profiles["topRight"])
         \o <<Cmd("L")>> \o CornerCommands(last.profiles["bottomRight"])
         \o <<Cmd("L")>> \o CornerCommands(last.profiles["bottomLeft"])
         \o <<Cmd("L")>> \o CornerCommands(last.profiles["topLeft"])
         \o <<Cmd("Z")>>

\* C12 witness: a path assembled from four curved corners whose profiles are
\* all different
C12_Witness ==
  /\ Computed
  /\ last.branch = "normalized"
  /\ \A c \in CornerSet : Truthy(last.profiles[c].cornerRadius)
  /\ Cardinality({last.profiles[c] : c \in CornerSet}) = 4

\* a radius argument is absent or a finite number >= 0
ValidRadius(x) == x = Undefined \/ (IsNum(x) /\ Le(Zero, x))

\* C13: every radius the component passes to buildSquirclePath is absent or
\* a finite number >= 0, whatever the raw props were.
C13_RadiiSanitized ==
  Built =>
    /\ ValidRadius(last.req.cornerRadius)
    /\ ValidRadius(last.req.topLeftCornerRadius)
    /\ ValidRadius(last.req.topRightCornerRadius)
    /\ ValidRadius(last.req.bottomRightCornerRadius)
    /\ ValidRadius(last.req.bottomLeftCornerRadius)

\* C14: every call the component makes to buildSquirclePath has width >= 0
\* and height >= 0, the inset call included.
C14_BoxNonNegative ==
  Built => Le(Zero, last.req.width) /\ Le(Zero, last.req.height)

\* the length of the side a corner shares with an adjacent corner
SideLength(adjacent) ==
  IF adjacent.side \in {"top", "bottom"} THEN last.req.width ELSE last.req.height

\* what the shared side leaves to a corner of requested radius 0: zeroTerm
\* when the adjacent radius is 0 too, else the side less the budget of the
\* adjacent corner (which has the larger radius and was resolved before)
ZeroCornerTerm(adjacent, zeroTerm) ==
  IF last.corners[adjacent.corner].radius = Zero THEN zeroTerm
  ELSE Sub(SideLength(adjacent), last.corners[adjacent.corner].roundingAndSmoothingBudget)

\* C15 as stated: when a corner and the adjacent corner on a side both have
\* radius 0, the side contributes its whole length to the minimum that
\* forms the corner's budget.
C15_ZeroEdgeUnconstrained ==
  (Built /\ last.branch = "normalized") =>
    \A c \in CornerSet :
      Requested[c] = Zero =>
        last.corners[c].roundingAndSmoothingBudget =
          MathMin(ZeroCornerTerm(ADJACENT_RELATIONS[c][1],
                                 SideLength(ADJACENT_RELATIONS[c][1])),
                  ZeroCornerTerm(ADJACENT_RELATIONS[c][2],
                                 SideLength(ADJACENT_RELATIONS[c][2])))

\* C15 amended: when a corner and the adjacent corner on a side both have
\* radius 0, the side contributes the term 0 to the minimum that forms the
\* corner's budget.
C15_ZeroEdgeContributesZero ==
  (Built /\ last.branch = "normalized") =>
    \A c \in CornerSet :
      Requested[c] = Zero =>
        last.corners[c].roundingAndSmoothingBudget =
          MathMin(ZeroCornerTerm(ADJACENT_RELATIONS[c][1], Zero),
                  ZeroCornerTerm(ADJACENT_RELATIONS[c][2], Zero))

\* C15 witness: in a box with two positive sides, a corner of radius 0 next
\* to a corner of radius 0 and to a curved one got the budget 0
C15_Witness ==
  /\ Built
  /\ last.branch = "normalized"
  /\ Lt(Zero, last.req.width)
  /\ Lt(Zero, last.req.height)
  /\ \E c \in CornerSet :
       /\ Requested[c] = Zero
       /\ last.corners[ADJACENT_RELATIONS[c][1].corner].radius = Zero
       /\ Lt(Zero, last.corners[ADJACENT_RELATIONS[c][2].corner].radius)
       /\ Lt(last.corners[ADJACENT_RELATIONS[c][2].corner].roundingAndSmoothingBudget,
             SideLength(ADJACENT_RELATIONS[c][2]))
       /\ last.corners[c].roundingAndSmoothingBudget = Zero

\* half the shorter side of the last request's box
HalfShorterSide == Div(MathMin(last.req.width, last.req.height), OfInt(2))

\* C16: for four equal radii r > 0, normalizeCorners returns for every corner
\* the budget min(width, height) / 2 and the radius min(r, min(width, height) / 2),
\* the pairs the symmetric fast path uses.
C16_FastPathMatchesNormalizer ==
  (Built /\ last.branch = "symmetric") =>
    /\ normalizeCorners([c \in CornerSet |-> Requested[c]],
                        last.req.width, last.req.height)
         = [c \in CornerSet |->
              [radius |-> MathMin(Requested[c], HalfShorterSide),
               roundingAndSmoothingBudget |-> HalfShorterSide]]
    /\ normalizeCorners([c \in CornerSet |-> Requested[c]],
                        last.req.width, last.req.height) = last.corners

\* C16 witness: a fast-path call on a box with unequal sides whose radius
\* exceeds half the shorter side
C16_Witness ==
  /\ Built
  /\ last.branch = "symmetric"
  /\ last.req.width # last.req.height
  /\ Lt(Zero, HalfShorterSide)
  /\ Lt(HalfShorterSide, Requested["topLeft"])
  /\ last.corners["bottomRight"].radius = HalfShorterSide

\* the arc sweep computeCornerProfile derives for corner c of the call l
ArcMeasureOf(l, c) ==
  ArcMeasure(EffectiveSmoothing(l.corners[c].radius, l.req.cornerSmoothing,
                                l.req.preserveSmoothing = "true",
                                l.corners[c].roundingAndSmoothingBudget))

\* C17: for a fixed radius > 0 and budget >= radius, a call of
\* computeCornerProfile with a larger smoothing never has a larger arcMeasure
\* nor a smaller p than one with a smaller smoothing, and with
\* preserveSmoothing off arcMeasure stays within [0, 90].
C17_SmoothingMonotone ==
  [][(/\ Computed
      /\ Computed'
      /\ last'.corners = last.corners
      /\ last'.req.preserveSmoothing = last.req.preserveSmoothing
      /\ Le(last.req.cornerSmoothing, last'.req.cornerSmoothing))
     => \A c \in CornerSet :
          (/\ Lt(Zero, last.corners[c].radius)
           /\ Le(last.corners[c].radius, last.corners[c].roundingAndSmoothingBudget))
          => /\ Le(last.profiles[c].p, last'.profiles[c].p)
             /\ Le(ArcMeasureOf(last', c), ArcMeasureOf(last, c))
             /\ last.req.preserveSmoothing # "true" =>
                  /\ Le(Zero, ArcMeasureOf(last', c))
                  /\ Le(ArcMeasureOf(last', c), OfInt(90))]_vars

\* the commands that draw corner c of the last call: curves exactly when the
\* profile's cornerRadius is not 0
CurveOrLine(c) ==
  IF last.profiles[c].cornerRadius # Zero THEN <<Cmd("c"), Cmd("a"), Cmd("c")>>
  ELSE <<Cmd("l")>>

\* the operands of the relative lines of a path
LineOperands(path) ==
  {path[i + 1] : i \in {j \in 1..(Len(path) - 2) : path[j].k = "l"}}
  \cup {path[i + 2] : i \in {j \in 1..(Len(path) - 2) : path[j].k = "l"}}

\* C18: computeCornerProfile returns the all-zero profile exactly when the
\* radius or the budget is <= 0; a corner is drawn as bezier, arc, bezier
\* exactly when its profile's cornerRadius is not 0 and as one zero-length
\* relative line otherwise.
C18_ZeroProfileStraightCorner ==
  Computed =>
    /\ \A c \in CornerSet :
         (last.profiles[c] = ZeroProfile)
           <=> (\/ Le(last.corners[c].radius, Zero)
                \/ Le(last.corners[c].roundingAndSmoothingBudget, Zero))
    /\ Commands(last.path) =
         <<Cmd("M")>> \o CurveOrLine("topRight")
         \o <<Cmd("L")>> \o CurveOrLine("bottomRight")
         \o <<Cmd("L")>> \o CurveOrLine("bottomLeft")
         \o <<Cmd("L")>> \o CurveOrLine("topLeft")
         \o <<Cmd("Z")>>
    /\ \A t \in LineOperands(last.path) : t.n = 0

\* a + b + c + d + arcSectionLength
ProfileSum(q) == Add(Add(Sum3(q.a, q.b, q.c), q.d), q.arcSectionLength)

\* a formatted operand in units of the 4th decimal, with its sign
Units(t) == IF t.k = "-toFixed" THEN -(t.n * t.d) ELSE t.n * t.d

\* the pen displacement <<dx, dy>> of a corner's commands, in units of the
\* 4th decimal: the end points of bezier, arc and bezier, or of the line
Displacement(trace) ==
  IF trace[1].k = "l" THEN <<Units(trace[2]), Units(trace[3])>>
  ELSE <<Units(trace[6]) + Units(trace[14]) + Units(trace[21]),
         Units(trace[7]) + Units(trace[15]) + Units(trace[22])>>

\* units differs from sign * x * 10^4 by no more than the rounding of three
\* operands
WithinRounding(units, sign, x) ==
  /\ (units - 2) * x[2] <= sign * x[1] * 10000
  /\ sign * x[1] * 10000 <= (units + 2) * x[2]

Displaces(trace, signX, signY, footprint) ==
  /\ WithinRounding(Displacement(trace)[1], signX, footprint)
  /\ WithinRounding(Displacement(trace)[2], signY, footprint)

\* C19: every profile a call obtains has a + b + c + d + arcSectionLength = p,
\* so the relative commands of each corner move the pen by p along both
\* axes (up to the rounding of the formatted operands), onto the next edge at
\* distance p from the vertex.
C19_FootprintIsSum ==
  Computed =>
    /\ \A c \in CornerSet : ProfileSum(last.profiles[c]) = P(c)
    /\ Displaces(traceTopRight(last.profiles["topRight"]), 1, 1, P("topRight"))
    /\ Displaces(traceBottomRight(last.profiles["bottomRight"]), -1, 1, P("bottomRight"))
    /\ Displaces(traceBottomLeft(last.profiles["bottomLeft"]), -1, -1, P("bottomLeft"))
    /\ Displaces(traceTopLeft(last.profiles["topLeft"]), 1, -1, P("topLeft"))

\* C19 witness: a curved corner in preserve-smoothing mode whose footprint
\* was clamped to the budget and whose b was clamped, so that a is not 2b
C19_Witness ==
  /\ Computed
  /\ Requested.preserveSmoothing
  /\ \E c \in CornerSet :
       /\ Truthy(last.profiles[c].cornerRadius)
       /\ P(c) = last.corners[c].roundingAndSmoothingBudget
       /\ Lt(P(c), Mul(Add(OfInt(1), last.req.cornerSmoothing), last.corners[c].radius))
       /\ last.profiles[c].a # Mul(OfInt(2), last.profiles[c].b)

====
